---------------------------- MODULE Spec2Model ----------------------------
(***************************************************************************)
(* Generative poster (Week 3): the blob generator, the palette samplers    *)
(* and the poster composers of app_week3_fixed.py and                      *)
(* week3_streamlit_app.py, with the two shared random streams (Python's    *)
(* `random` module and numpy's `np.random`) as explicit state.             *)
(*                                                                         *)
(* Numbers are fixed point:                                                *)
(*   - a draw of random.random() / np.random.rand() in stream state s is   *)
(*     s / StreamSize;                                                     *)
(*   - radii, wobble, alpha, hue, saturation, value: hundredths;           *)
(*   - colour components: millionths (CScale);                             *)
(*   - blob radii and blob coordinates: 1 / RScale.                        *)
(***************************************************************************)
EXTENDS Integers, Sequences, FiniteSets, TLC

VARIABLES
    app,        \* which script this process runs: "fixed" or "stream"
    pyState,    \* state of the process-wide `random` stream
    npState,    \* state of the process-wide `np.random` stream
    last,       \* what the last script run rendered (or NoRender)
    ui,         \* widget values and messages of the last script run
    call        \* last direct call of blob / a palette generator

vars == <<app, pyState, npState, last, ui, call>>

-----------------------------------------------------------------------------
(* Bounds of the model *)

\* number of states of each random stream; a draw is s / StreamSize
StreamSize == 4
\* largest layer count a script run asks for
MaxLayers == 2
\* largest outline point count (the code's 200, resp. 50..800, scaled down)
MaxPoints == 4

(* Program constants *)

\* make_palette(8, ...) in draw_week3_poster
PaletteK == 8
\* make_palette's base_h = 0.60, in hundredths
BaseH == 60
\* the palette-size slider: st.slider("Palette Size", 2, 12, 6)
MinPaletteSize == 2
MaxPaletteSize == 12

Centi == 10 * 10
Milli == 10 * Centi
CScale == Milli * Milli
RScale == Centi * 2 * Centi * StreamSize

None == <<>>
Some(v) == <<v>>

Abs(n) == IF n < 0 THEN -n ELSE n
Min2(a, b) == IF a <= b THEN a ELSE b
Max2(a, b) == IF a >= b THEN a ELSE b

-----------------------------------------------------------------------------
(* The random streams *)

StreamStates == 0 .. (StreamSize - 1)
StreamPairs == StreamStates \X StreamStates

\* the state after one draw
NextState(s) == (s + 1) % StreamSize

\* the state after n draws
RECURSIVE Advance(_, _)
Advance(s, n) == IF n = 0 THEN s ELSE Advance(NextState(s), n - 1)

\* random.seed(a) for an int a: seeds from abs(a); every int is accepted
PySeedState(a) == Abs(a) % StreamSize

\* np.random.seed(a): a must be in 0 .. 2**32 - 1, else ValueError.  Every
\* seed of the model is below 2**32, which leaves the sign to decide.
NpSeedAccepts(a) == a >= 0
NpSeedState(a) == a % StreamSize

\* a coordinate drawn as 2 * random.random(): up to 2, not up to 1
RandomRandom_Doubled(s) == (2 * Centi * s) \div StreamSize

\* random.random() drawn in state s, in hundredths: in [0, 1)
RandomRandom(s) == (Centi * s) \div StreamSize

\* random.uniform(a, b) = a + (b - a) * random(), drawn in state s
Uniform(a, b, s) == a + ((b - a) * s) \div StreamSize

\* random.choice(seq) drawn in state s: the index (1-based) it picks
ChoiceIndex(n, s) == ((s * n) \div StreamSize) + 1

-----------------------------------------------------------------------------
(* Palettes *)

\* matplotlib.colors.hsv_to_rgb([h, s, v]); h, s, v in hundredths
HsvToRgb(h, s, v) ==
    LET h6 == 6 * h
        i  == (h6 \div Centi) % 6
        f  == h6 % Centi
        vv == v * Centi * Centi
        p  == v * (Centi - s) * Centi
        q  == v * (Centi * Centi - s * f)
        t  == v * (Centi * Centi - s * (Centi - f))
    IN  IF s = 0 THEN <<vv, vv, vv>>
        ELSE CASE i = 0 -> <<vv, t, p>>
               [] i = 1 -> <<q, vv, p>>
               [] i = 2 -> <<p, vv, t>>
               [] i = 3 -> <<p, q, vv>>
               [] i = 4 -> <<t, p, vv>>
               [] OTHER -> <<vv, p, q>>

\* one iteration of make_palette's loop: the colour and the stream after it
PaletteEntry(mode, base_h, py) ==
    LET s1 == NextState(py)
        s2 == NextState(s1)
        s3 == NextState(s2)
        hr == RandomRandom(py)
    IN  CASE mode = "pastel" ->
               [col |-> HsvToRgb(hr, Uniform(12, 28, s1), Uniform(92, 100, s2)),
                py |-> s3]
          [] mode = "vivid" ->
               [col |-> HsvToRgb(hr, Uniform(85, 100, s1), Uniform(85, 100, s2)),
                py |-> s3]
          [] mode = "mono" ->
               [col |-> HsvToRgb(base_h, Uniform(25, 65, py), Uniform(55, 100, s1)),
                py |-> s2]
          [] OTHER ->
               [col |-> HsvToRgb(hr, Uniform(30, 100, s1), Uniform(55, 100, s2)),
                py |-> s3]

RECURSIVE MakePaletteLoop(_, _, _, _, _)
MakePaletteLoop(k, mode, base_h, py, cols) ==
    IF k <= 0 THEN [cols |-> cols, py |-> py]
    ELSE LET e == PaletteEntry(mode, base_h, py)
         IN  MakePaletteLoop(k - 1, mode, base_h, e.py, Append(cols, e.col))

\* make_palette(k, mode, base_h) of app_week3_fixed.py
make_palette(k, mode, py) == MakePaletteLoop(k, mode, BaseH, py, <<>>)

RECURSIVE RandomPaletteLoop(_, _, _)
RandomPaletteLoop(k, py, cols) ==
    IF k <= 0 THEN [cols |-> cols, py |-> py]
    ELSE LET s1 == NextState(py)
             s2 == NextState(s1)
             c  == << (CScale * py) \div StreamSize,
                      (CScale * s1) \div StreamSize,
                      (CScale * s2) \div StreamSize >>
         IN  RandomPaletteLoop(k - 1, NextState(s2), Append(cols, c))

\* random_palette(k)
random_palette(k, py) == RandomPaletteLoop(k, py, <<>>)

Rgb(r, g, b) == << r * Centi * Centi, g * Centi * Centi, b * Centi * Centi >>

PastelColors ==
    << Rgb(98, 74, 76), Rgb(69, 88, 90), Rgb(77, 92, 80),
       Rgb(98, 91, 71), Rgb(86, 77, 90), Rgb(99, 82, 64) >>

VividBase ==
    << Rgb(100, 0, 0), Rgb(0, 70, 0), Rgb(0, 0, 100),
       Rgb(100, 50, 0), Rgb(80, 0, 80), Rgb(100, 100, 0) >>

\* colors[:k] if k <= len(colors) else colors + random_palette(k - len(colors))
ListedPalette(colors, k, py) ==
    IF k <= Len(colors)
    THEN [cols |-> SubSeq(colors, 1, k), py |-> py]
    ELSE LET r == random_palette(k - Len(colors), py)
         IN  [cols |-> colors \o r.cols, py |-> r.py]

pastel_palette(k, py) == ListedPalette(PastelColors, k, py)

vivid_palette(k, py) == ListedPalette(VividBase, k, py)

\* [(0.2, 0.2 + i * 0.12, 0.6 + i * 0.05) for i in range(k)]
monochrome_palette(k, py) ==
    [cols |-> [j \in 1 .. k |-> Rgb(20, 20 + (j - 1) * 12, 60 + (j - 1) * 5)],
     py |-> py]

PaletteFns == {"Random", "Pastel", "Vivid", "Monochrome"}
PaletteModes == {"pastel", "vivid", "mono", "random"}

\* palette_map.get(palette_choice, random_palette), applied to k
PaletteFn(choice, k, py) ==
    CASE choice = "Pastel" -> pastel_palette(k, py)
      [] choice = "Vivid" -> vivid_palette(k, py)
      [] choice = "Monochrome" -> monochrome_palette(k, py)
      [] OTHER -> random_palette(k, py)

-----------------------------------------------------------------------------
(* Blobs *)

\* 1000 * cos / sin of num / den of a turn, den in 1 .. 8, num in 0 .. den
CosTable ==
    << <<1000, 1000>>,
       <<1000, -1000, 1000>>,
       <<1000, -500, -500, 1000>>,
       <<1000, 0, -1000, 0, 1000>>,
       <<1000, 309, -809, -809, 309, 1000>>,
       <<1000, 500, -500, -1000, -500, 500, 1000>>,
       <<1000, 623, -223, -901, -901, -223, 623, 1000>>,
       <<1000, 707, 0, -707, -1000, -707, 0, 707, 1000>> >>
SinTable ==
    << <<0, 0>>,
       <<0, 0, 0>>,
       <<0, 866, -866, 0>>,
       <<0, 1000, 0, -1000, 0>>,
       <<0, 951, 588, -588, -951, 0>>,
       <<0, 866, 866, 0, -866, -866, 0>>,
       <<0, 782, 975, 434, -434, -975, -782, 0>>,
       <<0, 707, 1000, 707, 0, -707, -1000, -707, 0>> >>

CosMilli(num, den) == CosTable[den][num + 1]
SinMilli(num, den) == SinTable[den][num + 1]

\* np.linspace(0, 2 * pi, points, endpoint=False): point i is at i / points
\* of a turn
LinspaceDenFixed(points) == points

\* np.linspace(0, 2 * pi, points): the end point 2 * pi is included, point i
\* is at i / (points - 1) of a turn
LinspaceDenStream(points) == points - 1

LinspaceDen(which, points) ==
    IF which = "fixed" THEN LinspaceDenFixed(points) ELSE LinspaceDenStream(points)

\* radii[i] = r * (1 + wobble * u): the draw is not centred on 0
Radius_NotCentred(r, wobble, s) == r * (2 * Centi * StreamSize + wobble * 2 * s)

\* radii[i] = r * (1 + wobble * (u - 0.5)), u = s / StreamSize, in 1 / RScale
Radius(r, wobble, s) == r * (2 * Centi * StreamSize + wobble * (2 * s - StreamSize))

\* blob(center, r, points, wobble): point i carries its angle (num / den of
\* a turn), its radius radii[i] and its coordinates x[i], y[i]
blob(which, center, r, points, wobble, np) ==
    LET den == LinspaceDen(which, points)
    IN  [i \in 1 .. points |->
            LET rad == Radius(r, wobble, Advance(np, i - 1))
            IN  [num |-> i - 1,
                 den |-> den,
                 rad |-> rad,
                 x |-> center[1] * 2 * Centi * StreamSize
                         + (rad * CosMilli(i - 1, den)) \div Milli,
                 y |-> center[2] * 2 * Centi * StreamSize
                         + (rad * SinMilli(i - 1, den)) \div Milli]]


-----------------------------------------------------------------------------
(* The composers *)

\* matplotlib's check on a fill colour: every component within 0 .. 1, else
\* ValueError("RGBA values should be within 0-1 range")
ValidColor(c) == \A j \in 1 .. 3 : c[j] >= 0 /\ c[j] <= CScale

\* a seeding block that seeds `random` and forgets np.random
SeedFixed_RandomOnly(seed, py, np, e) ==
    IF seed # None
    THEN [ok |-> TRUE, py |-> PySeedState(seed[1]), np |-> np]
    ELSE [ok |-> TRUE, py |-> e[1], np |-> e[2]]

\* The seeding block at the head of draw_week3_poster.  `e` is the entropy
\* the operating system hands to random.seed() and np.random.seed(None).
\* random.seed runs first: when np.random.seed raises, `random` is reseeded
\* already.
SeedFixed(seed, py, np, e) ==
    IF seed # None
    THEN IF NpSeedAccepts(seed[1])
         THEN [ok |-> TRUE, py |-> PySeedState(seed[1]), np |-> NpSeedState(seed[1])]
         ELSE [ok |-> FALSE, py |-> PySeedState(seed[1]), np |-> np]
    ELSE [ok |-> TRUE, py |-> e[1], np |-> e[2]]

\* The seeding block at the head of generate_poster: with seed None neither
\* stream is touched.
SeedStream(seed, py, np, e) ==
    IF seed # None
    THEN IF NpSeedAccepts(seed[1])
         THEN [ok |-> TRUE, py |-> PySeedState(seed[1]), np |-> NpSeedState(seed[1])]
         ELSE [ok |-> FALSE, py |-> PySeedState(seed[1]), np |-> np]
    ELSE [ok |-> TRUE, py |-> py, np |-> np]

\* One iteration of draw_week3_poster's loop on the running state st
LayerFixed(cfg, palette, st) ==
    LET s1 == NextState(st.py)
        s2 == NextState(s1)
        s3 == NextState(s2)
        s4 == NextState(s3)
        cx == RandomRandom(st.py)
        cy == RandomRandom(s1)
        rr == Uniform(cfg.r_min, cfg.r_max, s2)
        pts == blob("fixed", <<cx, cy>>, rr, cfg.points, cfg.wobble, st.np)
        color == palette[ChoiceIndex(Len(palette), s3)]
        alpha == Uniform(cfg.a_min, cfg.a_max, s4)
        fill == [op |-> "fill", center |-> <<cx, cy>>, r |-> rr,
                 wobble |-> cfg.wobble, pts |-> pts, color |-> color,
                 alpha |-> alpha]
    IN  [py |-> NextState(s4),
         np |-> Advance(st.np, cfg.points),
         ops |-> IF ValidColor(color) THEN Append(st.ops, fill) ELSE st.ops,
         status |-> IF ValidColor(color) THEN "ok" ELSE "color_error"]

\* One iteration of generate_poster's loop on the running state st; blob is
\* called without `points`, so with its default
LayerStream(cfg, palette, st) ==
    LET s1 == NextState(st.py)
        s2 == NextState(s1)
        s3 == NextState(s2)
        s4 == NextState(s3)
        s5 == NextState(s4)
        cx == RandomRandom(st.py)
        cy == RandomRandom(s1)
        rr == Uniform(cfg.radius_min, cfg.radius_max, s2)
        wobble == Uniform(cfg.wobble_min, cfg.wobble_max, s3)
        pts == blob("stream", <<cx, cy>>, rr, MaxPoints, wobble, st.np)
        color == palette[ChoiceIndex(Len(palette), s4)]
        alpha == Uniform(25, 60, s5)
        fill == [op |-> "fill", center |-> <<cx, cy>>, r |-> rr,
                 wobble |-> wobble, pts |-> pts, color |-> color,
                 alpha |-> alpha]
    IN  [py |-> NextState(s5),
         np |-> Advance(st.np, MaxPoints),
         ops |-> IF ValidColor(color) THEN Append(st.ops, fill) ELSE st.ops,
         status |-> IF ValidColor(color) THEN "ok" ELSE "color_error"]

Layer(which, cfg, palette, st) ==
    IF which = "fixed" THEN LayerFixed(cfg, palette, st)
    ELSE LayerStream(cfg, palette, st)

\* for _ in range(n_layers): ...; an exception leaves the loop
RECURSIVE DrawLayers(_, _, _, _, _)
DrawLayers(which, cfg, palette, n, st) ==
    IF n <= 0 \/ st.status # "ok" THEN st
    ELSE DrawLayers(which, cfg, palette, n - 1, Layer(which, cfg, palette, st))

\* ax.text(title ...); ax.text(subtitle ...)
TextOverlays(which, cfg, ops) ==
    IF which = "fixed"
    THEN ops \o << [op |-> "text", text |-> <<cfg.title, cfg.palette_mode>>],
                   [op |-> "text", text |-> <<cfg.subtitle>>] >>
    ELSE ops \o << [op |-> "text", text |-> <<cfg.title_text>>],
                   [op |-> "text", text |-> <<cfg.subtitle_text>>] >>

\* The end of a composer: the text overlays when the loop ended normally
Finish(which, cfg, sd, pal, fin) ==
    [status |-> fin.status,
     palette |-> pal.cols,
     ops |-> IF fin.status = "ok"
             THEN TextOverlays(which, cfg, fin.ops) ELSE fin.ops,
     start |-> <<sd.py, sd.np>>,
     py |-> fin.py,
     np |-> fin.np]

\* The loop of a composer, on the palette pal
DrawOn(which, cfg, sd, pal) ==
    Finish(which, cfg, sd, pal,
           DrawLayers(which, cfg, pal.cols, cfg.n_layers,
                      [py |-> pal.py, np |-> sd.np, ops |-> <<>>,
                       status |-> "ok"]))

\* The body of a composer after its seeding block sd: nothing is drawn when
\* seeding raised
Draw(which, cfg, sd) ==
    IF ~sd.ok
    THEN [status |-> "seed_error", palette |-> <<>>, ops |-> <<>>,
          start |-> <<sd.py, sd.np>>, py |-> sd.py, np |-> sd.np]
    ELSE DrawOn(which, cfg, sd,
                IF which = "fixed"
                THEN make_palette(PaletteK, cfg.palette_mode, sd.py)
                ELSE PaletteFn(cfg.palette_fn, cfg.palette_size, sd.py))

\* draw_week3_poster(...) called with the streams in states py, np
draw_week3_poster(cfg, py, np, e) == Draw("fixed", cfg, SeedFixed(cfg.seed, py, np, e))

\* generate_poster(...) called with the streams in states py, np
generate_poster(cfg, py, np, e) == Draw("stream", cfg, SeedStream(cfg.seed, py, np, e))

Compose(which, cfg, py, np, e) ==
    IF which = "fixed" THEN draw_week3_poster(cfg, py, np, e)
    ELSE generate_poster(cfg, py, np, e)

\* what a render leaves to look at: the poster
Poster(res) == [status |-> res.status, palette |-> res.palette, ops |-> res.ops]

-----------------------------------------------------------------------------
(* The seed text field of week3_streamlit_app.py *)

\* A text is a sequence of one-character strings.
Whitespace == {" "}
Digits == <<"0", "1", "2", "3", "4", "5", "6", "7", "8", "9">>
IsDigit(c) == \E d \in 1 .. 10 : Digits[d] = c
DigitVal(c) == (CHOOSE d \in 1 .. 10 : Digits[d] = c) - 1

RECURSIVE StripLeft(_)
StripLeft(t) ==
    IF t # <<>> /\ Head(t) \in Whitespace THEN StripLeft(Tail(t)) ELSE t

RECURSIVE StripRight(_)
StripRight(t) ==
    IF t # <<>> /\ t[Len(t)] \in Whitespace
    THEN StripRight(SubSeq(t, 1, Len(t) - 1)) ELSE t

\* str.strip()
Strip(t) == StripRight(StripLeft(t))

\* the digits of an int literal: digits, single underscores between them
DigitsOk(b) ==
    /\ b # <<>>
    /\ IsDigit(b[1])
    /\ IsDigit(b[Len(b)])
    /\ \A j \in 1 .. Len(b) : IsDigit(b[j]) \/ b[j] = "_"
    /\ \A j \in 1 .. (Len(b) - 1) : ~(b[j] = "_" /\ b[j + 1] = "_")

RECURSIVE DigitsValue(_, _)
DigitsValue(b, acc) ==
    IF b = <<>> THEN acc
    ELSE IF Head(b) = "_" THEN DigitsValue(Tail(b), acc)
    ELSE DigitsValue(Tail(b), 10 * acc + DigitVal(Head(b)))

\* int(text): surrounding whitespace is dropped, one sign is allowed;
\* ok = FALSE stands for ValueError
IntParse(t) ==
    LET u == Strip(t)
        signed == u # <<>> /\ u[1] \in {"+", "-"}
        b == IF signed THEN Tail(u) ELSE u
    IN  IF DigitsOk(b)
        THEN [ok |-> TRUE,
              val |-> IF signed /\ u[1] = "-" THEN -DigitsValue(b, 0)
                      ELSE DigitsValue(b, 0)]
        ELSE [ok |-> FALSE, val |-> 0]

\* a seed field that swallows the ValueError without a warning
SeedInput_Silent(seed_opt) ==
    IF Strip(seed_opt) # <<>> /\ IntParse(seed_opt).ok
    THEN [seed_val |-> Some(IntParse(seed_opt).val), warning |-> FALSE]
    ELSE [seed_val |-> None, warning |-> FALSE]

\* seed_val = None; if seed_opt.strip(): try: seed_val = int(seed_opt)
\* except ValueError: st.warning(...)
SeedInput(seed_opt) ==
    IF Strip(seed_opt) # <<>>
    THEN IF IntParse(seed_opt).ok
         THEN [seed_val |-> Some(IntParse(seed_opt).val), warning |-> FALSE]
         ELSE [seed_val |-> None, warning |-> TRUE]
    ELSE [seed_val |-> None, warning |-> FALSE]

-----------------------------------------------------------------------------
(* Script runs *)

NoRender == [rendered |-> FALSE]
NoUi == [shown |-> FALSE]
NoCall == [fn |-> "none"]

\* what a script run can be given
LayerCounts == 0 .. MaxLayers
\* seed_mode and seed_value: "Random each run" with the number input left
\* at its default, or "Fixed value" with a value typed in
SeedWidgets ==
    { <<"Random each run", 7>>, <<"Fixed value", 7>>, <<"Fixed value", -1>> }
SeedTexts ==
    { <<>>, <<" ">>, <<"a", "b", "c">>, <<" ", "4", "2">>, <<"-", "1">> }
PaletteSizes == {MinPaletteSize, MaxPaletteSize}
\* the palette widgets as the page first shows them
DefaultPaletteChoice == "Pastel"
DefaultPaletteSize == 6

\* the entropy a composer may read: none when a seed is given
Entropy(seed) == IF seed = None THEN StreamPairs ELSE {<<0, 0>>}

Rendered(cfg, res) ==
    [rendered |-> TRUE, cfg |-> cfg, status |-> res.status,
     palette |-> res.palette, ops |-> res.ops, start |-> res.start]

\* One run of app_week3_fixed.py: the sidebar, seed_to_use, the render.
\* Geometry, alpha and label widgets stay at their defaults.
RunFixed(n_layers, palette_mode, seed_mode, seed_value) ==
    /\ app = "fixed"
    /\ LET cfg == [n_layers |-> n_layers, wobble |-> 12,
                   palette_mode |-> palette_mode,
                   seed |-> IF seed_mode = "Fixed value"
                            THEN Some(seed_value) ELSE None,
                   points |-> MaxPoints, r_min |-> 18, r_max |-> 48,
                   a_min |-> 30, a_max |-> 65,
                   title |-> "Generative Poster",
                   subtitle |-> "Week 3"]
       IN  \E e \in Entropy(cfg.seed) :
           \E res \in {draw_week3_poster(cfg, pyState, npState, e)} :
              /\ pyState' = res.py
              /\ npState' = res.np
              /\ last' = Rendered(cfg, res)
              /\ ui' = [shown |-> TRUE, seed_mode |-> seed_mode,
                        seed_value |-> seed_value, warning |-> FALSE]
    /\ UNCHANGED <<app, call>>

\* The widget values of week3_streamlit_app.py that reach generate_poster
\* (preset "Custom"; ranges, background, size and labels at their defaults)
StreamWidgets(palette_choice, palette_size, n_layers) ==
    [palette_fn |-> palette_choice, palette_size |-> palette_size,
     n_layers |-> n_layers, wobble_min |-> 5, wobble_max |-> 25,
     radius_min |-> 2, radius_max |-> 10,
     title_text |-> "Generative Poster", subtitle_text |-> "Week 2"]

\* One run of week3_streamlit_app.py: the sidebar with the seed field, and
\* the render when the button was clicked.
RunStream(palette_choice, palette_size, n_layers, seed_opt, clicked) ==
    /\ app = "stream"
    /\ LET w == StreamWidgets(palette_choice, palette_size, n_layers)
           si == SeedInput(seed_opt)
           cfg == [palette_fn |-> w.palette_fn, palette_size |-> w.palette_size,
                   n_layers |-> w.n_layers, seed |-> si.seed_val,
                   wobble_min |-> w.wobble_min, wobble_max |-> w.wobble_max,
                   radius_min |-> w.radius_min, radius_max |-> w.radius_max,
                   title_text |-> w.title_text,
                   subtitle_text |-> w.subtitle_text]
       IN  /\ ui' = [shown |-> TRUE, seed_opt |-> seed_opt,
                     seed_val |-> si.seed_val, warning |-> si.warning,
                     clicked |-> clicked, widgets |-> w]
           /\ IF clicked
              THEN \E res \in {generate_poster(cfg, pyState, npState, <<0, 0>>)} :
                      /\ pyState' = res.py
                      /\ npState' = res.np
                      /\ last' = Rendered(cfg, res)
              ELSE /\ last' = NoRender
                   /\ UNCHANGED <<pyState, npState>>
    /\ UNCHANGED <<app, call>>

\* The process starts: `random` and `np.random` are seeded from the
\* operating system's entropy when they are imported.
Init ==
    /\ app \in {"fixed", "stream"}
    /\ pyState \in StreamStates
    /\ npState \in StreamStates
    /\ last = NoRender
    /\ ui = NoUi
    /\ call = NoCall

Next ==
    \/ \E n \in LayerCounts, m \in PaletteModes, sw \in SeedWidgets :
          RunFixed(n, m, sw[1], sw[2])
    \/ \E pc \in PaletteFns, ps \in PaletteSizes, n \in LayerCounts,
          so \in SeedTexts :
          RunStream(pc, ps, n, so, TRUE)
    \/ \E so \in SeedTexts :
          RunStream(DefaultPaletteChoice, DefaultPaletteSize, MaxLayers, so, FALSE)

Spec == Init /\ [][Next]_vars

-----------------------------------------------------------------------------
(* Direct calls of the blob generator and of the palette generators *)

BlobCenters == {<<0, 0>>, <<50, 50>>, <<75, 25>>}
BlobRadii == {5, 30, 90}
BlobWobbles == {0, 12, 100}
BlobPoints == 3 .. MaxPoints

\* x, y = blob(center, r, points, wobble) of the script `app`
CallBlob(center, r, points, wobble) ==
    /\ call' = [fn |-> "blob", center |-> center, r |-> r, points |-> points,
                wobble |-> wobble,
                out |-> blob(app, center, r, points, wobble, npState)]
    /\ npState' = Advance(npState, points)
    /\ UNCHANGED <<app, pyState, last, ui>>

\* make_palette(k, mode) of app_week3_fixed.py
CallMakePalette(k, mode) ==
    /\ app = "fixed"
    /\ LET r == make_palette(k, mode, pyState)
       IN  /\ call' = [fn |-> "make_palette", mode |-> mode, k |-> k,
                       out |-> r.cols]
           /\ pyState' = r.py
    /\ UNCHANGED <<app, npState, last, ui>>

\* random_palette(k), pastel_palette(k), vivid_palette(k),
\* monochrome_palette(k) of week3_streamlit_app.py
CallPaletteFn(choice, k) ==
    /\ app = "stream"
    /\ LET r == PaletteFn(choice, k, pyState)
       IN  /\ call' = [fn |-> "palette_fn", mode |-> choice, k |-> k,
                       out |-> r.cols]
           /\ pyState' = r.py
    /\ UNCHANGED <<app, npState, last, ui>>

NextCore ==
    \/ \E c \in BlobCenters, r \in BlobRadii, n \in BlobPoints,
          w \in BlobWobbles : CallBlob(c, r, n, w)
    \/ \E k \in MinPaletteSize .. MaxPaletteSize, m \in PaletteModes :
          CallMakePalette(k, m)
    \/ \E k \in MinPaletteSize .. MaxPaletteSize, f \in PaletteFns :
          CallPaletteFn(f, k)

SpecCore == Init /\ [][NextCore]_vars

-----------------------------------------------------------------------------
(* Measures the properties are stated in *)

\* r * (1 + wobble / 2) and r * (1 - wobble / 2), in 1 / RScale
RadiusHi(r, wobble) == r * (2 * Centi * StreamSize + wobble * StreamSize)
RadiusLo(r, wobble) == r * (2 * Centi * StreamSize - wobble * StreamSize)

\* a coordinate given in hundredths, in 1 / RScale
ToRScale(c) == c * 2 * Centi * StreamSize

\* the hue of an RGB colour (colorsys.rgb_to_hsv), in 1 / 3600 of a turn
Hue(c) ==
    LET mx == Max2(c[1], Max2(c[2], c[3]))
        mn == Min2(c[1], Min2(c[2], c[3]))
        d  == mx - mn
    IN  IF d = 0 THEN 0
        ELSE IF c[1] = mx THEN ((600 * (c[2] - c[3])) \div d) % 3600
        ELSE IF c[2] = mx THEN (1200 + (600 * (c[3] - c[1])) \div d) % 3600
        ELSE (2400 + (600 * (c[1] - c[2])) \div d) % 3600

FillsOf(ops) == SelectSeq(ops, LAMBDA o : o.op = "fill")

SeededRender == last.rendered /\ last.cfg.seed # None

IsPaletteCall == call.fn \in {"make_palette", "palette_fn"}

IsMonoCall ==
    \/ call.fn = "make_palette" /\ call.mode = "mono"
    \/ call.fn = "palette_fn" /\ call.mode = "Monochrome"

\* the seed text is not blank and int() refuses it
RefusedSeedText(t) == Strip(t) # <<>> /\ ~IntParse(t).ok

\* the arguments generate_poster got are the widgets' values
ConfigFromWidgets(cfg, w) ==
    \A f \in DOMAIN w : cfg[f] = w[f]

-----------------------------------------------------------------------------
(* Properties *)

\* C1: a render with a seed yields the poster (palette, blob point sets,
\* colours, opacities, overlays) that the same call yields from every other
\* state of the two random streams, i.e. whatever was rendered before.
C1_SeededDeterminism ==
    SeededRender =>
        \A p \in StreamStates, n \in StreamStates :
            Poster(Compose(app, last.cfg, p, n, <<0, 0>>)) = Poster(last)

C1_Witness ==
    /\ SeededRender
    /\ last.status = "ok"
    /\ last.cfg.n_layers = MaxLayers
    /\ Len(FillsOf(last.ops)) = MaxLayers
    /\ <<pyState, npState>> # last.start

\* C2: for radius > 0, wobble in [0, 1] and at least 3 points, every point
\* of a blob has its radius within radius * (1 - wobble / 2) and
\* radius * (1 + wobble / 2), and lies no further than that from the centre
\* in either coordinate.
C2_BlobRadiusBound ==
    (call.fn = "blob" /\ call.r > 0 /\ call.wobble >= 0
        /\ call.wobble <= Centi /\ call.points >= 3) =>
        \A i \in 1 .. Len(call.out) :
            /\ call.out[i].rad >= RadiusLo(call.r, call.wobble)
            /\ call.out[i].rad <= RadiusHi(call.r, call.wobble)
            /\ Abs(call.out[i].x - ToRScale(call.center[1]))
                  <= RadiusHi(call.r, call.wobble)
            /\ Abs(call.out[i].y - ToRScale(call.center[2]))
                  <= RadiusHi(call.r, call.wobble)

C2_Witness ==
    /\ call.fn = "blob"
    /\ call.wobble = Centi
    /\ call.points = MaxPoints
    /\ \E i \in 1 .. Len(call.out) :
          call.out[i].rad = RadiusLo(call.r, call.wobble)
    /\ \E i \in 1 .. Len(call.out) :
          call.out[i].rad > ToRScale(call.r)

\* C3: every palette generator called with a count k of the allowed range
\* returns exactly k colours, each component within 0 .. 1.
C3_PaletteSizeAndRange ==
    IsPaletteCall =>
        /\ Len(call.out) = call.k
        /\ \A i \in 1 .. Len(call.out) : ValidColor(call.out[i])

\* C4: all entries of a palette made in monochrome mode share one hue.
C4_MonochromeHue ==
    IsMonoCall =>
        \A i \in 1 .. Len(call.out), j \in 1 .. Len(call.out) :
            Hue(call.out[i]) = Hue(call.out[j])

\* C5: a render with layer count N issues exactly N fills and then exactly
\* two text overlays.
C5_LayersThenOverlays ==
    last.rendered =>
        /\ Len(last.ops) = last.cfg.n_layers + 2
        /\ \A i \in 1 .. Len(last.ops) :
              last.ops[i].op = IF i <= last.cfg.n_layers THEN "fill" ELSE "text"

\* C6 as stated: a non-empty seed text that is not an integer gives a
\* warning, the seed None, and a render that runs with the widgets' values.
C6_InvalidSeedAsStated ==
    (app = "stream" /\ ui.shown /\ ui.seed_opt # <<>>
        /\ ~IntParse(ui.seed_opt).ok) =>
        /\ ui.warning
        /\ ui.seed_val = None
        /\ ui.clicked =>
              /\ last.rendered
              /\ last.cfg.seed = None
              /\ last.status # "seed_error"
              /\ ConfigFromWidgets(last.cfg, ui.widgets)

\* C6, amended: a seed text that is not blank (not empty once stripped of
\* whitespace) and that int() refuses gives a warning, the seed None, and a
\* render that runs without seeding, with the widgets' values; a blank text
\* gives the seed None and no warning.
C6_InvalidSeed ==
    (app = "stream" /\ ui.shown) =>
        /\ RefusedSeedText(ui.seed_opt) =>
              /\ ui.warning
              /\ ui.seed_val = None
              /\ ui.clicked =>
                    /\ last.rendered
                    /\ last.cfg.seed = None
                    /\ last.status # "seed_error"
                    /\ ConfigFromWidgets(last.cfg, ui.widgets)
        /\ Strip(ui.seed_opt) = <<>> => (~ui.warning /\ ui.seed_val = None)

C6_Witness ==
    /\ app = "stream"
    /\ ui.shown
    /\ ui.seed_opt = <<"a", "b", "c">>
    /\ ui.warning
    /\ ui.clicked
    /\ last.rendered
    /\ last.cfg.seed = None
    /\ last.cfg.n_layers = MaxLayers

\* C7: the streams' state at the start of a render without a seed is not
\* determined by the renders before it: after a render with a seed, the
\* same render without the seed can start its draws from every state of the
\* streams, depending on the entropy the operating system gives.
C7_UnseededNotDetermined ==
    (SeededRender /\ last.status = "ok") =>
        \A v \in StreamPairs :
            \E e \in StreamPairs :
                Compose(app, [last.cfg EXCEPT !.seed = None],
                        pyState, npState, e).start = v

\* C8: for every integer seed the control surface supplies, seeding both
\* streams succeeds.
C8_SeedingSucceeds ==
    SeededRender => last.status # "seed_error"

\* C9 as stated: every point of every blob of a render is in the unit
\* square.
C9_PointsInUnitSquare ==
    last.rendered =>
        \A i \in 1 .. Len(last.ops) :
            last.ops[i].op = "fill" =>
                \A j \in 1 .. Len(last.ops[i].pts) :
                    /\ last.ops[i].pts[j].x >= 0
                    /\ last.ops[i].pts[j].x <= RScale
                    /\ last.ops[i].pts[j].y >= 0
                    /\ last.ops[i].pts[j].y <= RScale

\* C9, amended: every blob's centre is in the unit square, and every point
\* of the blob is within radius * (1 + wobble / 2) of that centre in each
\* coordinate (so it may lie outside the unit square).
C9_CentresInUnitSquare ==
    last.rendered =>
        \A i \in 1 .. Len(last.ops) :
            last.ops[i].op = "fill" =>
                /\ last.ops[i].center[1] >= 0
                /\ last.ops[i].center[1] <= Centi
                /\ last.ops[i].center[2] >= 0
                /\ last.ops[i].center[2] <= Centi
                /\ \A j \in 1 .. Len(last.ops[i].pts) :
                      /\ Abs(last.ops[i].pts[j].x - ToRScale(last.ops[i].center[1]))
                            <= RadiusHi(last.ops[i].r, last.ops[i].wobble)
                      /\ Abs(last.ops[i].pts[j].y - ToRScale(last.ops[i].center[2]))
                            <= RadiusHi(last.ops[i].r, last.ops[i].wobble)

C9_Witness ==
    /\ last.rendered
    /\ last.status = "ok"
    /\ \E i \in 1 .. Len(last.ops) :
          /\ last.ops[i].op = "fill"
          /\ \E j \in 1 .. Len(last.ops[i].pts) : last.ops[i].pts[j].x < 0
          /\ \E j \in 1 .. Len(last.ops[i].pts) : last.ops[i].pts[j].y > 0

\* C10: blob called with n points returns n points, point i (from 0) at
\* i / n of a turn, so that no two points share a direction.
C10_EvenAngles ==
    call.fn = "blob" =>
        /\ Len(call.out) = call.points
        /\ \A i \in 1 .. Len(call.out) :
              /\ call.out[i].num = i - 1
              /\ call.out[i].den = call.points
        /\ \A i \in 1 .. Len(call.out), j \in 1 .. Len(call.out) :
              i # j => (call.out[i].num % call.out[i].den)
                          # (call.out[j].num % call.out[j].den)

=============================================================================
